---- MODULE Spec2Model ----
(***************************************************************************)
(* State-machine model of the Glue partition manager: the entry point      *)
(* run (src/src/index.ts) and the handlers partitionExists, addPartition   *)
(* and deletePartition (src/src/partition.ts), running against a catalog   *)
(* whose getPartition, getTable, createPartition and deletePartition are   *)
(* atomic server-side steps.                                               *)
(*                                                                         *)
(* Strings that the code inspects character by character (partition spec,  *)
(* bucket, prefix, location) are sequences of one-character strings.       *)
(* Strings that the code only passes around or compares as a whole (error  *)
(* messages, exception names, timestamps, flags) are TLA+ strings.         *)
(***************************************************************************)
EXTENDS Integers, Sequences, FiniteSets, TLC

(* ---------------------------------------------------------------------- *)
(* Bounds                                                                  *)
(* ---------------------------------------------------------------------- *)

\* Number of invocations a process makes in sequence.
MaxRuns == 2

\* Longest path handed to buildS3Location on its own.
MaxPathLen == 4

\* Longest partition spec handed to parsePartitionValues on its own.
MaxSpecLen == 6

Procs == {"p1", "p2"}

(* ---------------------------------------------------------------------- *)
(* Optional values                                                         *)
(* ---------------------------------------------------------------------- *)

\* JavaScript undefined for a character-sequence value: a one-element
\* sequence whose element is not a character, so it differs from every string.
undefined == <<"undefined">>

\* JavaScript undefined for a value modelled as a TLA+ string.
none == "undefined"

\* JavaScript truthiness of an optional character sequence: undefined and the
\* empty string are falsy.
Truthy(s) == s # undefined /\ s # <<>>

(* ---------------------------------------------------------------------- *)
(* String helpers                                                          *)
(* ---------------------------------------------------------------------- *)

RECURSIVE Split(_, _)
\* String.prototype.split(sep) for a one-character separator: every
\* occurrence of sep separates two segments.
Split(s, sep) ==
  LET idx == {i \in 1..Len(s) : s[i] = sep}
  IN IF idx = {} THEN <<s>>
     ELSE LET i == CHOOSE j \in idx : \A k \in idx : j <= k
          IN <<SubSeq(s, 1, i - 1)>> \o Split(SubSeq(s, i + 1, Len(s)), sep)

RECURSIVE TrimLeft(_)
TrimLeft(s) == IF s # <<>> /\ Head(s) = " " THEN TrimLeft(Tail(s)) ELSE s

RECURSIVE TrimRight(_)
TrimRight(s) ==
  IF s # <<>> /\ s[Len(s)] = " " THEN TrimRight(SubSeq(s, 1, Len(s) - 1)) ELSE s

\* String.prototype.trim()
Trim(s) == TrimRight(TrimLeft(s))

RECURSIVE StripLeadingSlashes(_)
StripLeadingSlashes(s) ==
  IF s # <<>> /\ Head(s) = "/" THEN StripLeadingSlashes(Tail(s)) ELSE s

RECURSIVE StripTrailingSlashes(_)
StripTrailingSlashes(s) ==
  IF s # <<>> /\ s[Len(s)] = "/"
  THEN StripTrailingSlashes(SubSeq(s, 1, Len(s) - 1)) ELSE s

\* .map(s => s.trim())
TrimAll(segments) == [i \in 1..Len(segments) |-> Trim(segments[i])]

\* String.prototype.toLowerCase() on the flag spellings the model feeds in.
toLowerCase(s) ==
  CASE s = "TRUE" -> "true"
    [] s = "True" -> "true"
    [] s = "FALSE" -> "false"
    [] OTHER -> s

(* ---------------------------------------------------------------------- *)
(* parsePartitionValues                                                    *)
(* ---------------------------------------------------------------------- *)

\* One pair of the loop body: pair.split('=').map(trim), destructured into
\* [key, value]; value is undefined when the pair holds no '='.
SplitPair(pair) ==
  LET parts == TrimAll(Split(pair, "="))
  IN [key |-> parts[1],
      value |-> IF Len(parts) >= 2 THEN parts[2] ELSE undefined]

PairInvalid(pair) ==
  LET kv == SplitPair(pair) IN kv.key = <<>> \/ kv.value = undefined

parsePartitionValues(partitionValuesStr) ==
  LET pairs == SelectSeq(TrimAll(Split(partitionValuesStr, ";")),
                         LAMBDA p : Len(p) > 0)
      kvs == [i \in 1..Len(pairs) |-> SplitPair(pairs[i])]
  IN IF \E i \in 1..Len(pairs) : PairInvalid(pairs[i])
     THEN [ok |-> FALSE, keys |-> <<>>, values |-> <<>>,
           error |-> "Invalid partition value format"]
     ELSE IF Len(pairs) = 0
     THEN [ok |-> FALSE, keys |-> <<>>, values |-> <<>>,
           error |-> "No partition values provided"]
     ELSE [ok |-> TRUE,
           keys |-> [i \in 1..Len(kvs) |-> kvs[i].key],
           values |-> [i \in 1..Len(kvs) |-> kvs[i].value],
           error |-> none]

(* ---------------------------------------------------------------------- *)
(* buildS3Location                                                         *)
(* ---------------------------------------------------------------------- *)

buildS3Location(bucket, prefix) ==
  LET cleanPrefix == StripTrailingSlashes(StripLeadingSlashes(prefix))
  IN <<"s", "3", ":", "/", "/">> \o bucket \o <<"/">> \o cleanPrefix \o <<"/">>

(* ---------------------------------------------------------------------- *)
(* Data model                                                              *)
(* ---------------------------------------------------------------------- *)

\* Absent StorageDescriptor (undefined, or the null a JSON payload parses to).
NoDescriptor == [Location |-> undefined, InputFormat |-> none]

\* The minimal descriptor addPartition synthesizes.
DefaultDescriptor(location) ==
  [Location |-> location,
   InputFormat |-> "org.apache.hadoop.mapred.TextInputFormat"]

\* PartitionConfig
Config(values, location, ifNotExists, storageDescriptor) ==
  [database |-> "db", table |-> "tbl", partitionValues |-> values,
   location |-> location, catalogId |-> none,
   ifNotExists |-> ifNotExists, storageDescriptor |-> storageDescriptor]

NoConfig == Config(<<>>, undefined, none, none)

\* PartitionResult
Result(success, exists, values, location, createdAt, error) ==
  [success |-> success, exists |-> exists, partitionValues |-> values,
   location |-> location, createdAt |-> createdAt, error |-> error]

NoResult == Result(FALSE, FALSE, <<>>, undefined, none, none)

\* Exceptions, as far as the handlers tell them apart: class and message.
EntityNotFoundException ==
  [name |-> "EntityNotFoundException", message |-> "Partition not found."]

AlreadyExistsException ==
  [name |-> "AlreadyExistsException", message |-> "Partition already exists."]

\* Any other service error (authorization, throttling, network).
AccessDeniedException ==
  [name |-> "AccessDeniedException", message |-> "User is not authorized."]

MissingLocationError ==
  [name |-> "Error",
   message |-> "S3 location (s3-bucket and s3-prefix) is required for add operation"]

SyntaxError ==
  [name |-> "SyntaxError", message |-> "Unexpected token in JSON"]

NoError == [name |-> none, message |-> none]

(* ---------------------------------------------------------------------- *)
(* Custom descriptor payloads and JSON.parse                               *)
(* ---------------------------------------------------------------------- *)

GoodPayload == "{\"InputFormat\":\"custom.InputFormat\",\"Location\":\"s3://other/\"}"

BadPayload == "{not json"

NullPayload == "null"

\* JSON.parse on the payloads of the model: the parsed descriptor, null, or
\* a SyntaxError.
JSONparse(payload) ==
  CASE payload = GoodPayload ->
         [ok |-> TRUE,
          value |-> [Location |-> <<"s", "3", ":", "/", "/", "o", "/">>,
                     InputFormat |-> "custom.InputFormat"]]
    [] payload = NullPayload -> [ok |-> TRUE, value |-> NoDescriptor]
    [] OTHER -> [ok |-> FALSE, value |-> NoDescriptor]

(* ---------------------------------------------------------------------- *)
(* The catalog service                                                     *)
(* ---------------------------------------------------------------------- *)

Partition(values, descriptor, creationTime) ==
  [DatabaseName |-> "db", TableName |-> "tbl", Values |-> values,
   StorageDescriptor |-> descriptor, CreationTime |-> creationTime]

\* The partitions of the catalog with the identity a request names.
Matching(parts, cfg) ==
  {x \in parts : /\ x.DatabaseName = cfg.database
                 /\ x.TableName = cfg.table
                 /\ x.Values = cfg.partitionValues}

NoPartition == Partition(<<>>, NoDescriptor, none)

\* GetPartitionCommand: the partition, or EntityNotFoundException.
CatalogGetPartition(parts, cfg) ==
  IF Matching(parts, cfg) = {}
  THEN [error |-> EntityNotFoundException, Partition |-> NoPartition]
  ELSE [error |-> NoError, Partition |-> CHOOSE x \in Matching(parts, cfg) : TRUE]

\* CreatePartitionCommand: atomic compare-and-create.
CatalogCreatePartition(parts, cfg, descriptor) ==
  IF Matching(parts, cfg) # {}
  THEN [error |-> AlreadyExistsException, partitions |-> parts]
  ELSE [error |-> NoError,
        partitions |-> parts \cup {Partition(cfg.partitionValues, descriptor, "t1")}]

\* DeletePartitionCommand: removes the partition, or EntityNotFoundException.
CatalogDeletePartition(parts, cfg) ==
  IF Matching(parts, cfg) = {}
  THEN [error |-> EntityNotFoundException, partitions |-> parts]
  ELSE [error |-> NoError, partitions |-> parts \ Matching(parts, cfg)]

\* GetTableCommand: the table, or EntityNotFoundException when it is missing.
CatalogGetTable(tbl) ==
  IF tbl.exists
  THEN [error |-> NoError, StorageDescriptor |-> tbl.StorageDescriptor]
  ELSE [error |-> EntityNotFoundException, StorageDescriptor |-> NoDescriptor]

\* A failed round trip instead of the catalog's answer.
Failed(response) == [response EXCEPT !.error = AccessDeniedException]

(* ---------------------------------------------------------------------- *)
(* Handlers: the local code between two remote calls                       *)
(* ---------------------------------------------------------------------- *)

\* What a handler does next: wait for a remote call, or return a result.
Await(call, descriptor) ==
  [pc |-> call, storageDescriptor |-> descriptor, result |-> NoResult]

Return(res) ==
  [pc |-> "done", storageDescriptor |-> NoDescriptor, result |-> res]

\* Mutant: a found partition is reported without its location and time, and
\* NotFound is reported as a failure.
partitionExists_Bare(cfg, response) ==
  IF response.error = NoError
  THEN Result(TRUE, TRUE, cfg.partitionValues, undefined, none, none)
  ELSE Result(FALSE, FALSE, cfg.partitionValues, undefined, none,
              response.error.message)

\* partitionExists: the result built from the answer to GetPartitionCommand.
partitionExists(cfg, response) ==
  IF response.error = NoError
  THEN IF response.Partition # NoPartition
       THEN Result(TRUE, TRUE, cfg.partitionValues,
                   response.Partition.StorageDescriptor.Location,
                   response.Partition.CreationTime, none)
       ELSE Result(TRUE, FALSE, cfg.partitionValues, undefined, none, none)
  ELSE IF response.error.name = "EntityNotFoundException"
  THEN Result(TRUE, FALSE, cfg.partitionValues, undefined, none, none)
  ELSE Result(FALSE, FALSE, cfg.partitionValues, undefined, none,
              response.error.message)

\* Mutant: AlreadyExists is never folded into a success.
addPartitionCatch_NoFold(cfg, error) ==
  Result(FALSE, FALSE, cfg.partitionValues, undefined, none, error.message)

\* Mutant: AlreadyExists is folded into a success whatever ifNotExists says.
addPartitionCatch_AlwaysFold(cfg, error) ==
  IF error.name = "AlreadyExistsException"
  THEN Result(TRUE, TRUE, cfg.partitionValues, cfg.location, none, none)
  ELSE Result(FALSE, FALSE, cfg.partitionValues, undefined, none, error.message)

\* addPartition, catch block.
addPartitionCatch(cfg, error) ==
  IF error.name = "AlreadyExistsException" /\ cfg.ifNotExists = "true"
  THEN Result(TRUE, TRUE, cfg.partitionValues, cfg.location, none, none)
  ELSE Result(FALSE, FALSE, cfg.partitionValues, undefined, none, error.message)

\* Mutant: the early return reports the configured location.
addPartitionSkip_ConfigLocation(cfg, existsResult) ==
  Result(TRUE, TRUE, cfg.partitionValues, cfg.location, none, none)

\* addPartition, the early return when the existence check finds the partition.
addPartitionSkip(cfg, existsResult) ==
  Result(TRUE, TRUE, cfg.partitionValues, existsResult.location, none, none)

\* Mutant: the return after a successful create reports no location.
addPartitionCreated_NoLocation(cfg) ==
  Result(TRUE, TRUE, cfg.partitionValues, undefined, none, none)

\* addPartition, the return after a successful create.
addPartitionCreated(cfg) ==
  Result(TRUE, TRUE, cfg.partitionValues, cfg.location, none, none)

\* Mutant: a descriptor that was obtained keeps its own location.
addPartitionPrepare_KeepLocation(cfg, descriptor) ==
  IF descriptor # NoDescriptor
  THEN Await("CreatePartition", descriptor)
  ELSE Await("CreatePartition", DefaultDescriptor(cfg.location))

\* addPartition from "Update location in storage descriptor" up to the send
\* of CreatePartitionCommand.
addPartitionPrepare(cfg, descriptor) ==
  IF descriptor # NoDescriptor
  THEN Await("CreatePartition", [descriptor EXCEPT !.Location = cfg.location])
  ELSE Await("CreatePartition", DefaultDescriptor(cfg.location))

\* Mutant: the table is asked for its descriptor whatever the configuration.
addPartitionResolve_TableFirst(cfg) == Await("GetTable", NoDescriptor)

\* addPartition after the existence check: the choice between the custom
\* descriptor and the table's one.
addPartitionResolve(cfg) ==
  IF cfg.storageDescriptor # none /\ cfg.storageDescriptor # ""
  THEN LET parsed == JSONparse(cfg.storageDescriptor)
       IN IF parsed.ok
          THEN addPartitionPrepare(cfg, parsed.value)
          ELSE Return(addPartitionCatch(cfg, SyntaxError))
  ELSE Await("GetTable", NoDescriptor)

\* Mutant: the location is not checked.
addPartitionEntry_NoLocationCheck(cfg) ==
  IF cfg.ifNotExists = "true"
  THEN Await("GetPartition", NoDescriptor)
  ELSE addPartitionResolve(cfg)

\* Mutant: the existence check is sent whatever ifNotExists says.
addPartitionEntry_AlwaysCheck(cfg) ==
  IF ~Truthy(cfg.location)
  THEN Return(addPartitionCatch(cfg, MissingLocationError))
  ELSE Await("GetPartition", NoDescriptor)

\* addPartition from its entry up to the first remote call.
addPartitionEntry(cfg) ==
  IF ~Truthy(cfg.location)
  THEN Return(addPartitionCatch(cfg, MissingLocationError))
  ELSE IF cfg.ifNotExists = "true"
       THEN Await("GetPartition", NoDescriptor)
       ELSE addPartitionResolve(cfg)

\* Mutant: the answer of the existence check is ignored.
addPartitionChecked_NoSkip(cfg, existsResult) == addPartitionResolve(cfg)

\* addPartition on the answer of the existence check.
addPartitionChecked(cfg, existsResult) ==
  IF existsResult.exists
  THEN Return(addPartitionSkip(cfg, existsResult))
  ELSE addPartitionResolve(cfg)

\* getTableStorageDescriptor: the table's descriptor, undefined on any error.
getTableStorageDescriptor(response) ==
  IF response.error = NoError THEN response.StorageDescriptor ELSE NoDescriptor

\* addPartition on the answer to CreatePartitionCommand.
addPartitionSent(cfg, response) ==
  IF response.error = NoError
  THEN addPartitionCreated(cfg)
  ELSE addPartitionCatch(cfg, response.error)

\* Mutant: EntityNotFoundException is treated like any other error.
deletePartition_NotFoundFails(cfg, response) ==
  IF response.error = NoError
  THEN Result(TRUE, FALSE, cfg.partitionValues, undefined, none, none)
  ELSE Result(FALSE, FALSE, cfg.partitionValues, undefined, none,
              response.error.message)

\* Mutant: a successful delete reports the partition as existing.
deletePartition_StillExists(cfg, response) ==
  IF response.error = NoError
  THEN Result(TRUE, TRUE, cfg.partitionValues, undefined, none, none)
  ELSE IF response.error.name = "EntityNotFoundException"
  THEN Result(TRUE, FALSE, cfg.partitionValues, undefined, none, none)
  ELSE Result(FALSE, FALSE, cfg.partitionValues, undefined, none,
              response.error.message)

\* deletePartition on the answer to DeletePartitionCommand.
deletePartition(cfg, response) ==
  IF response.error = NoError
  THEN Result(TRUE, FALSE, cfg.partitionValues, undefined, none, none)
  ELSE IF response.error.name = "EntityNotFoundException"
  THEN Result(TRUE, FALSE, cfg.partitionValues, undefined, none, none)
  ELSE Result(FALSE, FALSE, cfg.partitionValues, undefined, none,
              response.error.message)

\* The switch of run: the handler of the operation, up to its first remote call.
Dispatch(operation, cfg) ==
  CASE operation = "add" -> addPartitionEntry(cfg)
    [] operation = "delete" -> Await("DeletePartition", NoDescriptor)
    [] operation = "exists" -> Await("GetPartition", NoDescriptor)

(* ---------------------------------------------------------------------- *)
(* run: inputs, validation, outputs                                        *)
(* ---------------------------------------------------------------------- *)

RECURSIVE Join(_, _)
\* Array.prototype.join(sep)
Join(seq, sep) ==
  IF seq = <<>> THEN <<>>
  ELSE IF Len(seq) = 1 THEN seq[1]
  ELSE seq[1] \o sep \o Join(Tail(seq), sep)

\* run up to "Build configuration": the configuration, or the error thrown.
runValidate(operation, partitionValuesStr, s3Bucket, s3Prefix, ifNotExistsInput, storageDescriptorInput) ==
  LET parsed == parsePartitionValues(partitionValuesStr)
      location == IF s3Bucket # <<>> /\ s3Prefix # <<>>
                  THEN buildS3Location(s3Bucket, s3Prefix) ELSE undefined
      ifNotExistsStr == IF ifNotExistsInput = "" THEN "true" ELSE ifNotExistsInput
      ifNotExists == IF toLowerCase(ifNotExistsStr) = "true" THEN "true" ELSE "false"
      descriptor == IF storageDescriptorInput = "" THEN none
                    ELSE storageDescriptorInput
  IN IF operation \notin {"add", "delete", "exists"}
     THEN [ok |-> FALSE, error |-> "Invalid operation", config |-> NoConfig]
     ELSE IF ~parsed.ok
     THEN [ok |-> FALSE, error |-> parsed.error, config |-> NoConfig]
     ELSE IF operation = "add" /\ ~Truthy(location)
     THEN [ok |-> FALSE,
           error |-> "s3-bucket and s3-prefix are required for \"add\" operation",
           config |-> NoConfig]
     ELSE [ok |-> TRUE, error |-> none,
           config |-> Config(parsed.values, location, ifNotExists, descriptor)]

\* What run reports: the outputs it sets and the message given to setFailed.
Outputs(success, exists, values, location, createdAt, failed) ==
  [success |-> success, exists |-> exists, partitionValues |-> values,
   location |-> location, createdAt |-> createdAt, failed |-> failed]

NoOutputs == Outputs(none, none, undefined, undefined, none, none)

\* run, the catch block.
runFailed(message) == Outputs("false", none, undefined, undefined, none, message)

\* run from "Handle result" on.
runFinish(values, res) ==
  IF ~res.success
  THEN runFailed(IF res.error # none /\ res.error # "" THEN res.error
                 ELSE "Operation failed")
  ELSE Outputs("true", IF res.exists THEN "true" ELSE "false",
               Join(values, <<";">>),
               IF Truthy(res.location) THEN res.location ELSE undefined,
               res.createdAt, none)

(* ---------------------------------------------------------------------- *)
(* Inputs                                                                  *)
(* ---------------------------------------------------------------------- *)

OperationInputs == {"add", "delete", "exists", "list"}

\* partition-values inputs: "k=a", "k=b", "k" (no '=') and "" (no segment)
SpecInputs == {<<"k", "=", "a">>, <<"k", "=", "b">>, <<"k">>, <<>>}

BucketInputs == {<<>>, <<"b">>}

PrefixInputs == {<<"x">>, <<"/", "y", "/">>}

IfNotExistsInputs == {"", "true", "TRUE", "false"}

DescriptorInputs == {"", GoodPayload, BadPayload}

\* Value lists ["a"] and ["b"], as parsePartitionValues returns them.
Values == {<< <<"a">> >>, << <<"b">> >>}

\* Configurations handed to addPartition directly.
ValueInputs == {<< <<"a">> >>}

LocationInputs == {undefined, buildS3Location(<<"b">>, <<"x">>)}

FlagInputs == {"true", "false", none}

PayloadInputs == {none, GoodPayload, BadPayload, NullPayload}

\* Partitions the catalog may hold before the first invocation.
OldLocation == buildS3Location(<<"b">>, <<"o", "l", "d">>)

OldPartitions ==
  {Partition(v, [Location |-> OldLocation, InputFormat |-> "old.InputFormat"], "t0")
     : v \in Values}

TableLocation == buildS3Location(<<"b">>, <<"t">>)

\* The table: missing, without a descriptor, or with one.
Tables ==
  {[exists |-> FALSE, StorageDescriptor |-> NoDescriptor],
   [exists |-> TRUE, StorageDescriptor |-> NoDescriptor],
   [exists |-> TRUE,
    StorageDescriptor |-> [Location |-> TableLocation,
                           InputFormat |-> "table.InputFormat"]]}

\* How the invocations of a behaviour are spread over the processes: one
\* process invoking MaxRuns times in sequence on its own, or two processes
\* with one invocation each, running concurrently.
Budgets ==
  {[p \in Procs |-> IF p = "p1" THEN MaxRuns ELSE 0], [p \in Procs |-> 1]}

(* ---------------------------------------------------------------------- *)
(* State                                                                   *)
(* ---------------------------------------------------------------------- *)

VARIABLES
  partitions,         \* the partitions of the catalog
  table,              \* the table of the catalog
  budget,             \* invocations each process may make
  runs,               \* invocations each process has started
  entry,              \* "run" (index.ts) or "call" (handler called directly)
  operation,          \* the operation of the current invocation
  config,             \* its PartitionConfig
  pc,                 \* the remote call it is about to send, or "idle"/"done"
  storageDescriptor,  \* addPartition's local storageDescriptor
  calls,              \* remote calls of the current invocation, with outcomes
  result,             \* the PartitionResult returned
  prev,               \* result and remote calls of the previous invocation
  outputs,            \* what run reported
  arg,                \* the argument of a pure function applied on its own
  ret,                \* what the function returned
  applied             \* whether it has returned

vars == <<partitions, table, budget, runs, entry, operation, config, pc,
          storageDescriptor, calls, result, prev, outputs, arg, ret, applied>>

\* The variables of a pure function applied on its own.
pure == <<arg, ret, applied>>

catalog == <<partitions, table>>

\* No process has started.
Idle ==
  /\ runs = [p \in Procs |-> 0]
  /\ entry = [p \in Procs |-> none]
  /\ operation = [p \in Procs |-> none]
  /\ config = [p \in Procs |-> NoConfig]
  /\ pc = [p \in Procs |-> "idle"]
  /\ storageDescriptor = [p \in Procs |-> NoDescriptor]
  /\ calls = [p \in Procs |-> <<>>]
  /\ result = [p \in Procs |-> NoResult]
  /\ prev = [p \in Procs |-> [result |-> NoResult, calls |-> <<>>]]
  /\ outputs = [p \in Procs |-> NoOutputs]

Init ==
  /\ partitions \in SUBSET OldPartitions
  /\ table \in Tables
  /\ budget \in Budgets
  /\ Idle
  /\ arg = <<>>
  /\ ret = <<>>
  /\ applied = FALSE

\* One remote call of the log: the command and the exception it ended with.
CallEntry(api, response) == [api |-> api, outcome |-> response.error.name]

\* The process moves on as the handler says; run reports when it returns.
Advance(p, ent, cfg, step) ==
  /\ pc' = [pc EXCEPT ![p] = step.pc]
  /\ storageDescriptor' = [storageDescriptor EXCEPT ![p] = step.storageDescriptor]
  /\ result' = [result EXCEPT ![p] = step.result]
  /\ outputs' = [outputs EXCEPT ![p] =
                   IF step.pc = "done" /\ ent = "run"
                   THEN runFinish(cfg.partitionValues, step.result)
                   ELSE NoOutputs]

(* ---------------------------------------------------------------------- *)
(* Actions                                                                 *)
(* ---------------------------------------------------------------------- *)

\* run: read the inputs, validate, build the configuration and enter the handler.
\* The inputs that only addPartition reads are varied for "add" alone.
Run(p) ==
  /\ pc[p] = "idle"
  /\ runs[p] < budget[p]
  /\ \E op \in OperationInputs, spec \in SpecInputs, bucket \in BucketInputs,
        prefix \in PrefixInputs, flag \in IfNotExistsInputs,
        payload \in DescriptorInputs :
       /\ op # "add" => (bucket = <<>> /\ flag = "" /\ payload = "")
       /\ LET v == runValidate(op, spec, bucket, prefix, flag, payload)
          IN /\ entry' = [entry EXCEPT ![p] = "run"]
             /\ runs' = [runs EXCEPT ![p] = @ + 1]
             /\ IF v.ok
                THEN /\ operation' = [operation EXCEPT ![p] = op]
                     /\ config' = [config EXCEPT ![p] = v.config]
                     /\ Advance(p, "run", v.config, Dispatch(op, v.config))
                ELSE /\ operation' = [operation EXCEPT ![p] = op]
                     /\ config' = [config EXCEPT ![p] = NoConfig]
                     /\ pc' = [pc EXCEPT ![p] = "done"]
                     /\ outputs' = [outputs EXCEPT ![p] = runFailed(v.error)]
                     /\ UNCHANGED <<storageDescriptor, result>>
  /\ UNCHANGED <<partitions, table, budget, calls, prev>>
  /\ UNCHANGED pure

\* addPartition called directly with a configuration that run never builds:
\* one without a location, or one that leaves ifNotExists unset.
Call(p) ==
  /\ pc[p] = "idle"
  /\ runs[p] < budget[p]
  /\ \E v \in ValueInputs, loc \in LocationInputs, flag \in FlagInputs,
        payload \in PayloadInputs :
       /\ loc = undefined \/ flag = none
       /\ entry' = [entry EXCEPT ![p] = "call"]
       /\ runs' = [runs EXCEPT ![p] = @ + 1]
       /\ operation' = [operation EXCEPT ![p] = "add"]
       /\ config' = [config EXCEPT ![p] = Config(v, loc, flag, payload)]
       /\ Advance(p, "call", Config(v, loc, flag, payload),
                  Dispatch("add", Config(v, loc, flag, payload)))
  /\ UNCHANGED <<partitions, table, budget, calls, prev>>
  /\ UNCHANGED pure

\* The same invocation once more, with the identical configuration.
Repeat(p) ==
  /\ pc[p] = "done"
  /\ runs[p] < budget[p]
  /\ config[p] # NoConfig
  /\ runs' = [runs EXCEPT ![p] = @ + 1]
  /\ prev' = [prev EXCEPT ![p] = [result |-> result[p], calls |-> calls[p]]]
  /\ calls' = [calls EXCEPT ![p] = <<>>]
  /\ Advance(p, entry[p], config[p], Dispatch(operation[p], config[p]))
  /\ UNCHANGED <<partitions, table, budget, entry, operation, config>>
  /\ UNCHANGED pure

\* Mutant: the existence check sends a command that removes the partition.
GetPartition_Removing(p) ==
  /\ pc[p] = "GetPartition"
  /\ \E fails \in BOOLEAN :
       LET answer == CatalogGetPartition(partitions, config[p])
           response == IF fails THEN Failed(answer) ELSE answer
           existsResult == partitionExists(config[p], response)
       IN /\ calls' = [calls EXCEPT ![p] = Append(@, CallEntry("GetPartition", response))]
          /\ partitions' = IF fails THEN partitions
                           ELSE partitions \ Matching(partitions, config[p])
          /\ IF operation[p] = "exists"
             THEN Advance(p, entry[p], config[p], Return(existsResult))
             ELSE Advance(p, entry[p], config[p], addPartitionChecked(config[p], existsResult))
  /\ UNCHANGED <<table, budget, runs, entry, operation, config, prev>>
  /\ UNCHANGED pure

\* GetPartitionCommand, sent by partitionExists (on its own or inside addPartition).
GetPartition(p) ==
  /\ pc[p] = "GetPartition"
  /\ \E fails \in BOOLEAN :
       LET answer == CatalogGetPartition(partitions, config[p])
           response == IF fails THEN Failed(answer) ELSE answer
           existsResult == partitionExists(config[p], response)
       IN /\ calls' = [calls EXCEPT ![p] = Append(@, CallEntry("GetPartition", response))]
          /\ IF operation[p] = "exists"
             THEN Advance(p, entry[p], config[p], Return(existsResult))
             ELSE Advance(p, entry[p], config[p], addPartitionChecked(config[p], existsResult))
  /\ UNCHANGED <<partitions, table, budget, runs, entry, operation, config, prev>>
  /\ UNCHANGED pure

\* Mutant: a failure of the table fetch is thrown on to addPartition's catch.
GetTable_Fatal(p) ==
  /\ pc[p] = "GetTable"
  /\ \E fails \in BOOLEAN :
       LET answer == CatalogGetTable(table)
           response == IF fails THEN Failed(answer) ELSE answer
       IN /\ calls' = [calls EXCEPT ![p] = Append(@, CallEntry("GetTable", response))]
          /\ IF response.error = NoError
             THEN Advance(p, entry[p], config[p],
                          addPartitionPrepare(config[p], response.StorageDescriptor))
             ELSE Advance(p, entry[p], config[p],
                          Return(addPartitionCatch(config[p], response.error)))
  /\ UNCHANGED <<partitions, table, budget, runs, entry, operation, config, prev>>
  /\ UNCHANGED pure

\* Mutant: the location is overwritten in the table's descriptor itself.
GetTable_WritesBack(p) ==
  /\ pc[p] = "GetTable"
  /\ \E fails \in BOOLEAN :
       LET answer == CatalogGetTable(table)
           response == IF fails THEN Failed(answer) ELSE answer
       IN /\ calls' = [calls EXCEPT ![p] = Append(@, CallEntry("GetTable", response))]
          /\ table' = IF getTableStorageDescriptor(response) # NoDescriptor
                      THEN [table EXCEPT !.StorageDescriptor.Location = config[p].location]
                      ELSE table
          /\ Advance(p, entry[p], config[p],
                     addPartitionPrepare(config[p], getTableStorageDescriptor(response)))
  /\ UNCHANGED <<partitions, budget, runs, entry, operation, config, prev>>
  /\ UNCHANGED pure

\* GetTableCommand, sent by getTableStorageDescriptor inside addPartition.
GetTable(p) ==
  /\ pc[p] = "GetTable"
  /\ \E fails \in BOOLEAN :
       LET answer == CatalogGetTable(table)
           response == IF fails THEN Failed(answer) ELSE answer
       IN /\ calls' = [calls EXCEPT ![p] = Append(@, CallEntry("GetTable", response))]
          /\ Advance(p, entry[p], config[p],
                     addPartitionPrepare(config[p], getTableStorageDescriptor(response)))
  /\ UNCHANGED <<partitions, table, budget, runs, entry, operation, config, prev>>
  /\ UNCHANGED pure

\* CreatePartitionCommand, sent by addPartition.
CreatePartition(p) ==
  /\ pc[p] = "CreatePartition"
  /\ \E fails \in BOOLEAN :
       LET answer == CatalogCreatePartition(partitions, config[p], storageDescriptor[p])
           response == IF fails
                       THEN [Failed(answer) EXCEPT !.partitions = partitions]
                       ELSE answer
       IN /\ partitions' = response.partitions
          /\ calls' = [calls EXCEPT ![p] = Append(@, CallEntry("CreatePartition", response))]
          /\ Advance(p, entry[p], config[p], Return(addPartitionSent(config[p], response)))
  /\ UNCHANGED <<table, budget, runs, entry, operation, config, prev>>
  /\ UNCHANGED pure

\* DeletePartitionCommand, sent by deletePartition.
DeletePartition(p) ==
  /\ pc[p] = "DeletePartition"
  /\ \E fails \in BOOLEAN :
       LET answer == CatalogDeletePartition(partitions, config[p])
           response == IF fails
                       THEN [Failed(answer) EXCEPT !.partitions = partitions]
                       ELSE answer
       IN /\ partitions' = response.partitions
          /\ calls' = [calls EXCEPT ![p] = Append(@, CallEntry("DeletePartition", response))]
          /\ Advance(p, entry[p], config[p], Return(deletePartition(config[p], response)))
  /\ UNCHANGED <<table, budget, runs, entry, operation, config, prev>>
  /\ UNCHANGED pure

Next ==
  \E p \in Procs :
    \/ Run(p)
    \/ Call(p)
    \/ Repeat(p)
    \/ GetPartition(p)
    \/ GetTable(p)
    \/ CreatePartition(p)
    \/ DeletePartition(p)

Spec == Init /\ [][Next]_vars

(* ---------------------------------------------------------------------- *)
(* The pure functions applied on their own                                 *)
(* ---------------------------------------------------------------------- *)

\* All strings over an alphabet up to a length.
Strings(alphabet, n) == UNION {[1..k -> alphabet] : k \in 0..n}

RootInputs == {<<"b">>, <<"d", "l">>}

PathInputs == Strings({"/", "x"}, MaxPathLen)

SpecStrings == Strings({"k", "a", "=", ";", " "}, MaxSpecLen)

\* An empty catalog that no process works on.
Quiet ==
  /\ partitions = {}
  /\ table = [exists |-> FALSE, StorageDescriptor |-> NoDescriptor]
  /\ budget = [p \in Procs |-> 0]
  /\ Idle

InitLocation ==
  /\ Quiet
  /\ arg \in {[bucket |-> b, prefix |-> x] : b \in RootInputs, x \in PathInputs}
  /\ ret = undefined
  /\ applied = FALSE

BuildLocation ==
  /\ ~applied
  /\ ret' = buildS3Location(arg.bucket, arg.prefix)
  /\ applied' = TRUE
  /\ UNCHANGED <<partitions, table, budget, runs, entry, operation, config, pc,
                 storageDescriptor, calls, result, prev, outputs, arg>>

SpecLocation == InitLocation /\ [][BuildLocation]_vars

InitParser ==
  /\ Quiet
  /\ arg \in SpecStrings
  /\ ret = parsePartitionValues(<<>>)
  /\ applied = FALSE

ParseSpec ==
  /\ ~applied
  /\ ret' = parsePartitionValues(arg)
  /\ applied' = TRUE
  /\ UNCHANGED <<partitions, table, budget, runs, entry, operation, config, pc,
                 storageDescriptor, calls, result, prev, outputs, arg>>

SpecParser == InitParser /\ [][ParseSpec]_vars

TypeOK ==
  /\ \A p \in Procs : pc[p] \in {"idle", "GetPartition", "GetTable",
                                 "CreatePartition", "DeletePartition", "done"}
  /\ \A p \in Procs : runs[p] <= budget[p]

(* ---------------------------------------------------------------------- *)
(* Vocabulary of the properties                                            *)
(* ---------------------------------------------------------------------- *)

\* The handler of p has returned.
Returned(p) == pc[p] = "done" /\ config[p] # NoConfig

\* The commands of a call log, in order.
Apis(log) == [i \in 1..Len(log) |-> log[i].api]

Issued(log, api) == \E i \in 1..Len(log) : log[i].api = api

\* The call log holds the command api and it ended with outcome.
Answered(log, api, outcome) ==
  \E i \in 1..Len(log) : log[i].api = api /\ log[i].outcome = outcome

\* No getPartition, createPartition or deletePartition of the log met a
\* remote failure other than NotFound and AlreadyExists.
FaultFree(log) ==
  \A i \in 1..Len(log) :
    log[i].api # "GetTable" => log[i].outcome # AccessDeniedException.name

\* p has made two invocations in a row with the identical configuration and
\* no other process has touched the catalog.
TwiceInSequence(p) ==
  /\ Returned(p)
  /\ runs[p] >= 2
  /\ \A q \in Procs \ {p} : runs[q] = 0

\* The custom descriptor of the configuration is given and does not deserialize.
Malformed(cfg) ==
  /\ cfg.storageDescriptor # none
  /\ cfg.storageDescriptor # ""
  /\ ~JSONparse(cfg.storageDescriptor).ok

IdempotentAdd(p) ==
  /\ operation[p] = "add"
  /\ config[p].ifNotExists = "true"
  /\ Truthy(config[p].location)

(* ---------------------------------------------------------------------- *)
(* C1                                                                      *)
(* ---------------------------------------------------------------------- *)

SameIdentity(c, d) ==
  /\ c.database = d.database
  /\ c.table = d.table
  /\ c.catalogId = d.catalogId
  /\ c.partitionValues = d.partitionValues

\* Two Adds with ifNotExists=true for one identity have both returned, and
\* each was told by its existence check that the partition is absent.
Raced(p, q) ==
  /\ p # q
  /\ Returned(p) /\ Returned(q)
  /\ IdempotentAdd(p) /\ IdempotentAdd(q)
  /\ SameIdentity(config[p], config[q])
  /\ Answered(calls[p], "GetPartition", EntityNotFoundException.name)
  /\ Answered(calls[q], "GetPartition", EntityNotFoundException.name)
  /\ FaultFree(calls[p]) /\ FaultFree(calls[q])

\* One createPartition succeeded, the other one got AlreadyExists, both Adds
\* return success with their own location and the catalog holds one partition.
RaceResolved(p, q) ==
  /\ \/ /\ Answered(calls[p], "CreatePartition", none)
        /\ Answered(calls[q], "CreatePartition", AlreadyExistsException.name)
     \/ /\ Answered(calls[q], "CreatePartition", none)
        /\ Answered(calls[p], "CreatePartition", AlreadyExistsException.name)
  /\ \A r \in {p, q} :
       /\ result[r].success /\ result[r].exists
       /\ result[r].location = config[r].location
       /\ result[r].error = none
  /\ Cardinality(Matching(partitions, config[p])) = 1

C3_DeleteIdempotent ==
  \A p \in Procs :
    (/\ TwiceInSequence(p)
     /\ operation[p] = "delete"
     /\ FaultFree(prev[p].calls) /\ FaultFree(calls[p]))
    => /\ prev[p].result.success /\ ~prev[p].result.exists
       /\ result[p].success /\ ~result[p].exists
       /\ prev[p].result.error = none /\ result[p].error = none
       /\ Matching(partitions, config[p]) = {}

\* The first Delete removed the partition, the second one got NotFound.
C3_Witness ==
  \E p \in Procs :
    /\ TwiceInSequence(p)
    /\ operation[p] = "delete"
    /\ Answered(prev[p].calls, "DeletePartition", none)
    /\ Answered(calls[p], "DeletePartition", EntityNotFoundException.name)

(* ---------------------------------------------------------------------- *)
(* C4                                                                      *)
(* ---------------------------------------------------------------------- *)

\* p takes a step of an Exists invocation.
ExistsStep(p) ==
  /\ operation'[p] = "exists"
  /\ config'[p] # NoConfig
  /\ pc'[p] # pc[p]

\* C4: Exists issues only a getPartition call, no step of it changes a
\* partition or the table, and two consecutive Exists calls with the same
\* config and no mutation in between, both answered by the catalog, return
\* identical results.
C4_ExistsPure ==
  /\ [](\A p \in Procs :
          (Returned(p) /\ operation[p] = "exists")
          => Apis(calls[p]) = <<"GetPartition">>)
  /\ [][\A p \in Procs :
          ExistsStep(p) => (partitions' = partitions /\ table' = table)]_vars
  /\ [](\A p \in Procs :
          (/\ TwiceInSequence(p)
           /\ operation[p] = "exists"
           /\ FaultFree(prev[p].calls) /\ FaultFree(calls[p]))
          => result[p] = prev[p].result)

\* Two Exists in a row have found the partition.
C4_Witness ==
  \E p \in Procs :
    /\ TwiceInSequence(p)
    /\ operation[p] = "exists"
    /\ Answered(prev[p].calls, "GetPartition", none)
    /\ Answered(calls[p], "GetPartition", none)
    /\ result[p].exists

(* ---------------------------------------------------------------------- *)
(* C5                                                                      *)
(* ---------------------------------------------------------------------- *)

\* C5: Add with config.location absent returns success=false, exists=false
\* with an error message and never issues a remote call, whatever
\* ifNotExists, the custom descriptor and the catalog are; run refuses such
\* an add before it calls the handler.
C5_MissingLocation ==
  \A p \in Procs :
    /\ (/\ operation[p] = "add"
        /\ config[p] # NoConfig
        /\ ~Truthy(config[p].location))
       => /\ pc[p] = "done"
          /\ calls[p] = <<>>
          /\ ~result[p].success /\ ~result[p].exists
          /\ result[p].error = MissingLocationError.message
    /\ (/\ operation[p] = "add"
        /\ entry[p] = "run"
        /\ config[p] # NoConfig)
       => Truthy(config[p].location)

\* addPartition has returned for a config without location that asks for the
\* existence check and carries a custom descriptor.
C5_Witness ==
  \E p \in Procs :
    /\ Returned(p)
    /\ operation[p] = "add"
    /\ ~Truthy(config[p].location)
    /\ config[p].ifNotExists = "true"
    /\ config[p].storageDescriptor = GoodPayload
    /\ partitions # {}

(* ---------------------------------------------------------------------- *)
(* C6                                                                      *)
(* ---------------------------------------------------------------------- *)

\* Messages of the parsing and validation errors.
ValidationMessages ==
  {"Invalid partition value format", "No partition values provided",
   "s3-bucket and s3-prefix are required for \"add\" operation",
   MissingLocationError.message, SyntaxError.message}

\* The invocation of p has ended with a parsing or validation error.
EndedInValidationError(p) ==
  /\ pc[p] = "done"
  /\ \/ config[p] = NoConfig /\ outputs[p].failed \in ValidationMessages
     \/ config[p] # NoConfig /\ result[p].error \in ValidationMessages

\* C6: a run that ends with a parsing or validation error (invalid partition
\* spec, missing location for add, malformed custom descriptor) has sent no
\* getPartition, getTable, createPartition or deletePartition call.
C6_AsStated ==
  \A p \in Procs : EndedInValidationError(p) => calls[p] = <<>>

(* ---------------------------------------------------------------------- *)
(* C7                                                                      *)
(* ---------------------------------------------------------------------- *)

\* C7: Add with a custom descriptor payload that does not deserialize returns
\* a failed result and issues no createPartition call, for every catalog
\* state and every value of ifNotExists.
C7_AsStated ==
  \A p \in Procs :
    (Returned(p) /\ operation[p] = "add" /\ Malformed(config[p]))
    => /\ ~result[p].success
       /\ ~Issued(calls[p], "CreatePartition")

(* ---------------------------------------------------------------------- *)
(* C8                                                                      *)
(* ---------------------------------------------------------------------- *)

\* A getPartition, createPartition or deletePartition call of the log failed
\* with an error that is neither NotFound nor AlreadyExists.
UnexpectedFailure(log) ==
  \E i \in 1..Len(log) :
    /\ log[i].api \in {"GetPartition", "CreatePartition", "DeletePartition"}
    /\ log[i].outcome = AccessDeniedException.name

\* C8: whenever a getPartition, createPartition or deletePartition call of an
\* operation, the existence check inside Add included, fails with an
\* unexpected remote error, the operation returns success=false with the
\* original error text.
C8_AsStated ==
  \A p \in Procs :
    (Returned(p) /\ UnexpectedFailure(calls[p]))
    => /\ ~result[p].success
       /\ result[p].error = AccessDeniedException.message

(* ---------------------------------------------------------------------- *)
(* C9                                                                      *)
(* ---------------------------------------------------------------------- *)

\* p's Add receives the answer of its existence check: the partition is there.
CheckFindsPartition(p) ==
  /\ operation[p] = "add"
  /\ pc[p] = "GetPartition"
  /\ calls'[p] = Append(calls[p], [api |-> "GetPartition", outcome |-> none])

\* The location the catalog stores for the partition the config names.
StoredLocation(cfg) ==
  (CHOOSE x \in Matching(partitions, cfg) : TRUE).StorageDescriptor.Location

\* C9: when ifNotExists=true and the existence check reports the partition
\* present, Add returns at once with success=true, exists=true and the
\* location stored in the catalog, leaves the catalog unchanged, and has
\* issued neither getTable nor createPartition.
C9_ShortCircuit ==
  /\ [][\A p \in Procs :
          CheckFindsPartition(p)
          => /\ config[p].ifNotExists = "true"
             /\ pc'[p] = "done"
             /\ result'[p] = Result(TRUE, TRUE, config[p].partitionValues,
                                    StoredLocation(config[p]), none, none)
             /\ partitions' = partitions
             /\ table' = table]_vars
  /\ [](\A p \in Procs :
          (/\ Returned(p)
           /\ operation[p] = "add"
           /\ Answered(calls[p], "GetPartition", none))
          => Apis(calls[p]) = <<"GetPartition">>)

\* An Add has short-circuited on a partition stored under another location
\* than the one of its config.
C9_Witness ==
  \E p \in Procs :
    /\ Returned(p)
    /\ operation[p] = "add"
    /\ Answered(calls[p], "GetPartition", none)
    /\ result[p].success
    /\ result[p].location # config[p].location
    /\ Matching(partitions, config[p]) # {}
    /\ result[p].location = StoredLocation(config[p])

(* ---------------------------------------------------------------------- *)
(* C10                                                                     *)
(* ---------------------------------------------------------------------- *)

\* p's createPartition is answered with AlreadyExists.
CreateRefused(p) ==
  /\ pc[p] = "CreatePartition"
  /\ calls'[p] = Append(calls[p], [api |-> "CreatePartition",
                                   outcome |-> AlreadyExistsException.name])

\* C10: when createPartition answers AlreadyExists, Add with ifNotExists=false
\* returns success=false, exists=false with the error message, Add returns
\* success only if ifNotExists=true, and the existing partition is unchanged.
C10_AlreadyExistsPropagates ==
  /\ [](\A p \in Procs :
          (/\ Returned(p)
           /\ operation[p] = "add"
           /\ Answered(calls[p], "CreatePartition", AlreadyExistsException.name))
          => IF config[p].ifNotExists = "true"
             THEN result[p].success
             ELSE /\ ~result[p].success /\ ~result[p].exists
                  /\ result[p].error = AlreadyExistsException.message)
  /\ [][\A p \in Procs : CreateRefused(p) => partitions' = partitions]_vars

\* An Add with ifNotExists=false has met an existing partition.
C10_Witness ==
  \E p \in Procs :
    /\ Returned(p)
    /\ operation[p] = "add"
    /\ config[p].ifNotExists = "false"
    /\ Answered(calls[p], "CreatePartition", AlreadyExistsException.name)
    /\ ~result[p].success

(* ---------------------------------------------------------------------- *)
(* C11                                                                     *)
(* ---------------------------------------------------------------------- *)

\* The getTable call of the log failed (table missing, or any remote error).
TableFetchFailed(log) ==
  \E i \in 1..Len(log) : log[i].api = "GetTable" /\ log[i].outcome # none

\* p's Add receives a failure as the answer of its table fetch.
TableFetchFails(p) ==
  /\ pc[p] = "GetTable"
  /\ Len(calls'[p]) = Len(calls[p]) + 1
  /\ TableFetchFailed(calls'[p])

\* C11: a failure of getTable is never fatal to Add: Add goes on to
\* createPartition with the synthesized minimal default descriptor, and its
\* result is the one the outcome of createPartition alone determines
\* (success=true, exists=true when the create succeeds).
C11_TableFetchNonFatal ==
  /\ [][\A p \in Procs :
          TableFetchFails(p)
          => /\ pc'[p] = "CreatePartition"
             /\ storageDescriptor'[p] = DefaultDescriptor(config[p].location)]_vars
  /\ [](\A p \in Procs :
          (Returned(p) /\ TableFetchFailed(calls[p]))
          => /\ Issued(calls[p], "CreatePartition")
             /\ Answered(calls[p], "CreatePartition", none)
                => result[p] = Result(TRUE, TRUE, config[p].partitionValues,
                                      config[p].location, none, none)
             /\ Answered(calls[p], "CreatePartition", AccessDeniedException.name)
                => /\ ~result[p].success
                   /\ result[p].error = AccessDeniedException.message
             /\ Answered(calls[p], "CreatePartition", AlreadyExistsException.name)
                => result[p].success = (config[p].ifNotExists = "true"))

\* An Add whose table fetch failed has created the partition with the
\* default descriptor.
C11_Witness ==
  \E p \in Procs :
    /\ Returned(p)
    /\ TableFetchFailed(calls[p])
    /\ Answered(calls[p], "CreatePartition", none)
    /\ result[p].success
    /\ \E x \in Matching(partitions, config[p]) :
         x.StorageDescriptor = DefaultDescriptor(config[p].location)

(* ---------------------------------------------------------------------- *)
(* C12                                                                     *)
(* ---------------------------------------------------------------------- *)

ExistsAnswered(p) ==
  /\ operation[p] = "exists"
  /\ pc[p] = "GetPartition"
  /\ Len(calls'[p]) = Len(calls[p]) + 1

\* The partition the catalog stores for the identity the config names.
StoredPartition(cfg) == CHOOSE x \in Matching(partitions, cfg) : TRUE

\* C13: Exists maps the outcome of getPartition to its result: found gives
\* success=true, exists=true with location and createdAt of the stored
\* partition; NotFound gives success=true, exists=false without error; any
\* other failure gives success=false, exists=false with the error message.
C13_ExistsMapping ==
  [][\A p \in Procs :
       ExistsAnswered(p)
       => LET outcome == calls'[p][Len(calls'[p])].outcome
              values == config[p].partitionValues
          IN /\ pc'[p] = "done"
             /\ outcome \in {none, EntityNotFoundException.name,
                             AccessDeniedException.name}
             /\ outcome = none
                => /\ Matching(partitions, config[p]) # {}
                   /\ result'[p] =
                        Result(TRUE, TRUE, values,
                               StoredPartition(config[p]).StorageDescriptor.Location,
                               StoredPartition(config[p]).CreationTime, none)
             /\ outcome = EntityNotFoundException.name
                => /\ Matching(partitions, config[p]) = {}
                   /\ result'[p] = Result(TRUE, FALSE, values, undefined, none, none)
             /\ outcome = AccessDeniedException.name
                => result'[p] = Result(FALSE, FALSE, values, undefined, none,
                                       AccessDeniedException.message)]_vars

\* An Exists has found a partition and reports its location and creation time.
C13_Witness ==
  \E p \in Procs :
    /\ Returned(p)
    /\ operation[p] = "exists"
    /\ Answered(calls[p], "GetPartition", none)
    /\ result[p].exists
    /\ result[p].location = OldLocation
    /\ result[p].createdAt = "t0"

(* ---------------------------------------------------------------------- *)
(* C14                                                                     *)
(* ---------------------------------------------------------------------- *)

\* The path without its leading and trailing '/' characters.
TrimmedPath(path) ==
  LET inner == {i \in 1..Len(path) : path[i] # "/"}
  IN IF inner = {} THEN <<>>
     ELSE SubSeq(path, CHOOSE i \in inner : \A j \in inner : i <= j,
                       CHOOSE i \in inner : \A j \in inner : i >= j)

\* The string ends with one '/' and no more.
OneTrailingSeparator(s) ==
  /\ Len(s) >= 2
  /\ s[Len(s)] = "/"
  /\ s[Len(s) - 1] # "/"

\* C14: for every root and every path, the empty path and paths made of '/'
\* alone included, the location builder returns s3://<root>/<trimmed path>/
\* ending with exactly one '/'; for an empty path that is the root followed
\* by a single trailing separator.
C14_AsStated ==
  applied
  => /\ ret = <<"s", "3", ":", "/", "/">> \o arg.bucket \o <<"/">>
              \o TrimmedPath(arg.prefix) \o <<"/">>
     /\ OneTrailingSeparator(ret)
     /\ arg.prefix = <<>> => ret = <<"s", "3", ":", "/", "/">> \o arg.bucket \o <<"/">>

(* ---------------------------------------------------------------------- *)
(* Reference reading of a partition spec                                   *)
(* ---------------------------------------------------------------------- *)

\* The pieces of s between the occurrences of sep, in order.
Pieces(s, sep) ==
  LET cuts == {0} \cup {i \in 1..Len(s) : s[i] = sep} \cup {Len(s) + 1}
      cut(k) == CHOOSE c \in cuts : Cardinality({d \in cuts : d < c}) = k - 1
  IN [j \in 1..(Cardinality(cuts) - 1) |-> SubSeq(s, cut(j) + 1, cut(j + 1) - 1)]

\* s without the blanks at its ends.
Stripped(s) ==
  LET inner == {i \in 1..Len(s) : s[i] # " "}
  IN IF inner = {} THEN <<>>
     ELSE SubSeq(s, CHOOSE i \in inner : \A j \in inner : i <= j,
                    CHOOSE i \in inner : \A j \in inner : i >= j)

\* The non-empty segments of a spec, trimmed, in input order.
Segments(s) ==
  LET pieces == Pieces(s, ";")
  IN SelectSeq([i \in 1..Len(pieces) |-> Stripped(pieces[i])],
               LAMBDA x : x # <<>>)

EqualSigns(seg) == {i \in 1..Len(seg) : seg[i] = "="}

\* Position of the first '=' of a segment that has one.
FirstEqual(seg) == CHOOSE i \in EqualSigns(seg) : \A j \in EqualSigns(seg) : i <= j

\* Key and value of a segment split on its first '='.
KeyOf(seg) == Stripped(SubSeq(seg, 1, FirstEqual(seg) - 1))

ValueOf(seg) == Stripped(SubSeq(seg, FirstEqual(seg) + 1, Len(seg)))

\* The segment has an '=' and a non-empty key before it.
WellFormed(seg) == EqualSigns(seg) # {} /\ KeyOf(seg) # <<>>

\* The spec has a segment, and all its segments are well formed.
ValidSpec(s) ==
  /\ Segments(s) # <<>>
  /\ \A i \in 1..Len(Segments(s)) : WellFormed(Segments(s)[i])

(* ---------------------------------------------------------------------- *)
(* C15                                                                     *)
(* ---------------------------------------------------------------------- *)

\* C15: the parser splits each segment on the first '=' only: the key is
\* the text before the first '=' and the value all of the text after it,
\* also when the value contains '=' (k=a=b gives a=b), and a segment with
\* an empty value (k=) is accepted with the empty string as value.
C15_AsStated ==
  (applied /\ ValidSpec(arg))
  => /\ ret.ok
     /\ Len(ret.keys) = Len(Segments(arg))
     /\ Len(ret.values) = Len(Segments(arg))
     /\ \A i \in 1..Len(Segments(arg)) :
          /\ ret.keys[i] = KeyOf(Segments(arg)[i])
          /\ ret.values[i] = ValueOf(Segments(arg)[i])


(* ---------------------------------------------------------------------- *)
(* C16                                                                     *)
(* ---------------------------------------------------------------------- *)

\* C16: for every valid spec k1=v1;...;kn=vn the parser returns the keys
\* [k1..kn] and the values [v1..vn] in input order, with equal lengths and
\* without deduplication; a spec with no non-empty segment, with a segment
\* lacking '=' or with a segment whose key is empty makes the parser fail.
C16_AsStated ==
  applied
  => IF ValidSpec(arg)
     THEN /\ ret.ok
          /\ ret.keys = [i \in 1..Len(Segments(arg)) |-> KeyOf(Segments(arg)[i])]
          /\ ret.values = [i \in 1..Len(Segments(arg)) |-> ValueOf(Segments(arg)[i])]
     ELSE ~ret.ok /\ ret.error # none


(* ---------------------------------------------------------------------- *)
(* C17                                                                     *)
(* ---------------------------------------------------------------------- *)

\* The remote calls of addPartition in the order of its code.
AddCalls == <<"GetPartition", "GetTable", "CreatePartition">>

Position(api) == CHOOSE i \in 1..Len(AddCalls) : AddCalls[i] = api

\* The configuration carries a custom descriptor payload.
CustomGiven(cfg) == cfg.storageDescriptor # none /\ cfg.storageDescriptor # ""

\* The process is inside, or has returned from, an Add with a configuration.
Adding(p) == operation[p] = "add" /\ config[p] # NoConfig

\* C17: the remote calls of one Add are issued one after the other in the
\* order getPartition (only when ifNotExists is true), getTable (only when
\* no custom descriptor is given), createPartition; each is sent at most
\* once and only after the previous one has returned, createPartition is
\* the last call, and without ifNotExists no getPartition is sent.
C17_CallOrder ==
  \A p \in Procs :
    Adding(p)
    => LET log == Apis(calls[p])
       IN /\ \A i \in 1..Len(log) : \E k \in 1..Len(AddCalls) : log[i] = AddCalls[k]
          /\ \A i, j \in 1..Len(log) : i < j => Position(log[i]) < Position(log[j])
          /\ Issued(calls[p], "GetPartition") <=> (config[p].ifNotExists = "true" /\ log # <<>>)
          /\ Issued(calls[p], "GetTable") => ~CustomGiven(config[p])
          /\ (pc[p] = "CreatePartition" \/ Issued(calls[p], "CreatePartition"))
             => (CustomGiven(config[p]) \/ Issued(calls[p], "GetTable"))
          /\ pc[p] \in {"GetTable", "CreatePartition"}
             => (config[p].ifNotExists = "true" <=> Issued(calls[p], "GetPartition"))
          /\ pc[p] \in {"GetPartition", "GetTable", "CreatePartition"}
             => ~Issued(calls[p], pc[p])
          /\ Issued(calls[p], "CreatePartition")
             => pc[p] = "done" /\ log[Len(log)] = "CreatePartition"

\* An Add has returned after sending all three calls.
C17_Witness ==
  \E p \in Procs :
    /\ Adding(p)
    /\ Returned(p)
    /\ Apis(calls[p]) = AddCalls


(* ---------------------------------------------------------------------- *)
(* C18                                                                     *)
(* ---------------------------------------------------------------------- *)

\* A descriptor with its location replaced by the configured one.
Relocated(descriptor, cfg) == [descriptor EXCEPT !.Location = cfg.location]

\* What the custom payload of the configuration deserializes to.
CustomParsed(cfg) == JSONparse(cfg.storageDescriptor)

\* p's table fetch has returned a descriptor.
TableYields(p) ==
  /\ Answered(calls[p], "GetTable", NoError.name)
  /\ table.StorageDescriptor # NoDescriptor

\* p is inside an Add and about to send CreatePartitionCommand.
Sending(p) == Adding(p) /\ pc[p] = "CreatePartition"

Creates(p) ==
  /\ Sending(p)
  /\ pc'[p] = "done"
  /\ Answered(calls'[p], "CreatePartition", NoError.name)

\* C19: every createPartition call of Add carries config.location as the
\* descriptor's location and config.partitionValues as the values, whether
\* the descriptor is the custom one, the table's or the synthesized one,
\* also when the custom or the table's descriptor had another location.
C19_CreateCarriesConfig ==
  /\ [](\A p \in Procs :
          Sending(p) => storageDescriptor[p].Location = config[p].location)
  /\ [][\A p \in Procs :
          Creates(p)
          => \E part \in partitions' :
               /\ partitions' = partitions \cup {part}
               /\ part \notin partitions
               /\ part.Values = config[p].partitionValues
               /\ part.StorageDescriptor = storageDescriptor[p]
               /\ part.StorageDescriptor.Location = config[p].location]_vars

\* An Add has created a partition from a custom descriptor that named
\* another location, and the partition has the configured one.
C19_Witness ==
  \E p \in Procs :
    /\ Adding(p)
    /\ Returned(p)
    /\ Answered(calls[p], "CreatePartition", NoError.name)
    /\ CustomGiven(config[p])
    /\ CustomParsed(config[p]).value # NoDescriptor
    /\ CustomParsed(config[p]).value.Location # config[p].location
    /\ \E part \in partitions :
         /\ part.Values = config[p].partitionValues
         /\ part.StorageDescriptor = Relocated(CustomParsed(config[p]).value, config[p])

(* ---------------------------------------------------------------------- *)
(* C20                                                                     *)
(* ---------------------------------------------------------------------- *)

\* p takes a step of an Add in this step.
AddStep(p) ==
  /\ operation'[p] = "add"
  /\ pc'[p] # pc[p] \/ calls'[p] # calls[p]

\* C20: Add never changes the table's own storage descriptor: over any step
\* of an Add the table stored in the catalog, its location included, stays
\* as it was, and a create with the inherited descriptor gives only the new
\* partition the configured location.
C20_TableUntouched ==
  /\ [][\A p \in Procs : AddStep(p) => table' = table]_vars
  /\ [][\A p \in Procs :
          (Creates(p) /\ TableYields(p))
          => /\ table'.StorageDescriptor.Location = TableLocation
             /\ table'.StorageDescriptor.Location # config[p].location
             /\ partitions' = partitions \cup
                  {Partition(config[p].partitionValues,
                             Relocated(table'.StorageDescriptor, config[p]), "t1")}]_vars

\* An Add has created a partition with the descriptor inherited from the
\* table; the partition has the configured location, the table its own.
C20_Witness ==
  \E p \in Procs :
    /\ Adding(p)
    /\ Returned(p)
    /\ TableYields(p)
    /\ Answered(calls[p], "CreatePartition", NoError.name)
    /\ table.StorageDescriptor.Location = TableLocation
    /\ \E part \in partitions :
         /\ part.Values = config[p].partitionValues
         /\ part.StorageDescriptor = Relocated(table.StorageDescriptor, config[p])
         /\ part.StorageDescriptor.Location # table.StorageDescriptor.Location


(* ---------------------------------------------------------------------- *)
(* C21                                                                     *)
(* ---------------------------------------------------------------------- *)

\* p's operation returns in this step, on the answer of a remote call.
Returns(p) == pc[p] \notin {"idle", "done"} /\ pc'[p] = "done"

\* The catalog parts holds the partition the configuration names.
Present(parts, cfg) == Matching(parts, cfg) # {}

\* No process but p has invoked anything.
Alone(p) == \A q \in Procs \ {p} : runs[q] = 0

\* C21: the exists flag of a successful result tells whether the partition
\* exists after the operation: when an operation returns success=true,
\* result.exists equals the presence of the partition in the catalog at the
\* moment it returns, and as long as no other process changes the catalog
\* (present after Add, absent after Delete, current presence for Exists).
C21_ExistsIsPresence ==
  /\ [][\A p \in Procs :
          (Returns(p) /\ result'[p].success)
          => (result'[p].exists <=> Present(partitions', config[p]))]_vars
  /\ [](\A p \in Procs :
          (Returned(p) /\ Alone(p) /\ result[p].success)
          => (result[p].exists <=> Present(partitions, config[p])))

\* A Delete has removed a partition and reports it absent.
C21_Witness ==
  \E p \in Procs :
    /\ Returned(p)
    /\ Alone(p)
    /\ operation[p] = "delete"
    /\ Answered(calls[p], "DeletePartition", NoError.name)
    /\ result[p].success
    /\ ~result[p].exists
    /\ ~Present(partitions, config[p])

(* ---------------------------------------------------------------------- *)
(* C22                                                                     *)
(* ---------------------------------------------------------------------- *)

\* The location the catalog parts stores for the partition cfg names.
LocationIn(parts, cfg) ==
  (CHOOSE x \in Matching(parts, cfg) : TRUE).StorageDescriptor.Location

\* p's Add returns success in this step.
AddSucceeds(p) == Returns(p) /\ operation[p] = "add" /\ result'[p].success

====
